---- MODULE Spec2Model ----
(***************************************************************************)
(* Model of the Monte-Carlo Tree Search engine of mcts/MCTS.py: the        *)
(* TreeNode / TreeEdge heap, TreeEdge.update, TreeNode.expand,             *)
(* MonteCarloTree.edge_criteria, softmax, turn, fit and _fit.              *)
(*                                                                         *)
(* Nodes and edges are heap objects addressed by handle (index into the    *)
(* sequences nodes and edges); handle 0 is None.  The concrete decision    *)
(* process and the opponent are external to MCTS.py; the model draws them  *)
(* from a small family: take-away games, two scripted opponents that       *)
(* return a newly built node, and one that returns the node it was given.  *)
(***************************************************************************)
EXTENDS Integers, Sequences, FiniteSets

\* ---------------------------------------------------------------- bounds
MaxPile == 4          \* largest initial pile of the decision process
MaxIter == 2          \* training iterations per run (ordinary scenarios)
E2EIters == 51        \* training iterations per run (two-action scenario)
MaxCalls == 2         \* turn() and direct expand() calls per run
BigPrior == 3000      \* a prior large enough to push a sibling's weight to 0.0
Wide == 8             \* actions of the wide decision process, the most children C10 is about
HighPrior == 105      \* the prior the wide decision process gives its last action
WideIter == 3         \* training iterations per run (wide scenario)

\* ------------------------------------------------------- program constants
CNum == 3             \* exploration coefficient c = .3 = CNum / CDen
CDen == 10
SyntheticPrior == 1   \* prior of the opponent-reply edge
MinBits == 1074       \* the smallest positive np.float64 is 2^-MinBits
Digits == 53          \* binary digits of an np.float64
GridBits == 53        \* np.random's uniform draws are multiples of 2^-GridBits
Guard == 8            \* binary digits kept beyond Digits before rounding
Reach == 60           \* exponents up to Digits + Guard - 1 apart add exactly
Slack == 3            \* accuracy of the C library's exp, in 2^Guard-ths of a last place
Limb == 10000         \* base of the digits of a natural number
Chunk == 13           \* 2^Chunk is below Limb: binary shifts go by Chunk digits
FracLimbs == 6        \* fractional digits of the argument of exp, in base Limb
NearGap == 20         \* a score this close to the largest has a weight above 2^-40
FarGap == 746         \* a score this far below the largest has the weight 0.0
MaxQuick == 1000      \* longest list whose weights the integers around the scores settle

VARIABLES
    nodes,          \* heap of TreeNode: [st, parent_edge, children]
    edges,          \* heap of TreeEdge: [prior, visit_count, value, parent, child]
    root,           \* MonteCarloTree.root
    opp,            \* which opponent the caller supplied
    persp,          \* whether get_reward depends on its player argument
    priors,         \* the priors the decision process gives its actions, in order
    cap,            \* iterations the caller runs in total
    pc,             \* position inside fit/_fit, "idle" between calls
    cur,            \* cur_node of _fit
    sel_node,       \* sel_node of _fit
    sel_action,     \* sel_action of _fit
    ro,             \* roll_out_node: the node of the deep copy under simulation
    first_turn,     \* first_turn of _fit
    opponent_turn,  \* opponent_turn of _fit
    n_req,          \* num_iter of the running fit call
    k,              \* iterations completed by the running fit call
    total,          \* iterations completed in the run
    lastop,         \* last API call
    err,            \* exception raised by the last API call, "none" if it returned
    ret,            \* node returned by the last turn()
    action_idx,     \* action_idx of the last call, if it was a turn()
    calls,          \* history: per edge and reward, update() calls started on it
    ncall,          \* turn() and direct expand() calls made
    arg,            \* node argument of the last call, a turn() or an expand()
    expanded,       \* history: the nodes expand() has run on
    log             \* history: opponent calls and roll-out plies of the iteration

vars == <<nodes, edges, root, opp, persp, priors, cap, pc, cur, sel_node, sel_action,
          ro, first_turn, opponent_turn, n_req, k, total, lastop, err, ret,
          action_idx, calls, ncall, arg, expanded, log>>

Rewards == {-1, 0, 1}
NoCalls == [r \in Rewards |-> 0]
NoRo == [st |-> [pile |-> 0, turn |-> 1], src |-> 0, nkids |-> 0]

\* ------------------------------------------------- the decision process
Other(t) == 3 - t

\* TreeNode.is_finish on a state: no legal action remains
StFinish(st) == st.pile <= 0

\* get_available_child_nodes: <<state of the new child, prior>> per action
get_available_child_nodes(st) ==
    IF StFinish(st) THEN <<>>
    ELSE [a \in 1..Len(priors) |->
             <<[pile |-> st.pile - a, turn |-> Other(st.turn)], priors[a]>>]

\* get_reward(player): taking the last object wins, overshooting is a draw
get_reward(st, player) ==
    IF st.pile < 0 THEN 0
    ELSE IF (IF persp THEN player ELSE 1) = st.turn THEN -1 ELSE 1

\* ------------------------------------------------------------- TreeNode
TreeNode(st, pe) == [st |-> st, parent_edge |-> pe, children |-> <<>>]

is_terminal(n) == Len(nodes[n].children) = 0
is_finish(n) == Len(get_available_child_nodes(nodes[n].st)) = 0

\* __eq__ of the concrete node: equality of the states
NodeEq(a, b) == nodes[a].st = nodes[b].st

\* a turn() that takes any node for the root
RootIs_any(node) == TRUE

\* the condition turn() asserts, line 140: self.root == node
RootIs(node) == NodeEq(root, node)

\* ------------------------------------------------------------- TreeEdge
TreeEdge(prior, parent, child) ==
    [prior |-> prior, visit_count |-> 0, value |-> 0,
     parent |-> parent, child |-> child]

\* update that does not go on to the edge into the parent node
update_no_walk(E, e, reward) ==
    [E EXCEPT ![e].value = @ + reward, ![e].visit_count = @ + 1]

\* update that forgets self.value += reward
RECURSIVE update_no_value(_, _, _)
update_no_value(E, e, reward) ==
    LET E1 == [E EXCEPT ![e].visit_count = @ + 1]
        pe == nodes[E[e].parent].parent_edge
    IN  IF pe # 0 THEN update_no_value(E1, pe, reward) ELSE E1

\* update with the two increments swapped
RECURSIVE update_swapped(_, _, _)
update_swapped(E, e, reward) ==
    LET E1 == [E EXCEPT ![e].value = @ + 1, ![e].visit_count = @ + reward]
        pe == nodes[E[e].parent].parent_edge
    IN  IF pe # 0 THEN update_swapped(E1, pe, reward) ELSE E1

\* update with self.value = reward for self.value += reward
RECURSIVE update_assign(_, _, _)
update_assign(E, e, reward) ==
    LET E1 == [E EXCEPT ![e].value = reward, ![e].visit_count = @ + 1]
        pe == nodes[E[e].parent].parent_edge
    IN  IF pe # 0 THEN update_assign(E1, pe, reward) ELSE E1

RECURSIVE update(_, _, _)
update(E, e, reward) ==
    LET E1 == [E EXCEPT ![e].value = @ + reward, ![e].visit_count = @ + 1]
        pe == nodes[E[e].parent].parent_edge
    IN  IF pe # 0 THEN update(E1, pe, reward) ELSE E1

\* expand without its assertion
NoChildren_off(N, n) == TRUE

\* the assertion of TreeNode.expand (line 65): the node has no children
NoChildren(N, n) == Len(N[n].children) = 0

\* an expand whose new edges all lead to the first new node
expand_shared(N, E, n) ==
    LET av == get_available_child_nodes(N[n].st)
        nn == Len(N)
        ne == Len(E)
        newN == [i \in 1..Len(av) |-> TreeNode(av[i][1], ne + i)]
        newE == [i \in 1..Len(av) |-> TreeEdge(av[i][2], n, nn + 1)]
    IN  [N |-> [N EXCEPT ![n].children = @ \o [i \in 1..Len(av) |-> ne + i]] \o newN,
         E |-> E \o newE]

\* TreeNode.expand on heap <<N, E>>: one new node and one new edge per action
expand(N, E, n) ==
    LET av == get_available_child_nodes(N[n].st)
        nn == Len(N)
        ne == Len(E)
        newN == [i \in 1..Len(av) |-> TreeNode(av[i][1], ne + i)]
        newE == [i \in 1..Len(av) |-> TreeEdge(av[i][2], n, nn + i)]
    IN  [N |-> [N EXCEPT ![n].children = @ \o [i \in 1..Len(av) |-> ne + i]] \o newN,
         E |-> E \o newE]


\* ------------------------------------------------------------- opponent
\* The opponents: "one" and "two" answer with a newly built node (no parent
\* edge, no children) for the state after taking one or two objects; "pass"
\* returns the node it was given.
Scripted == {"one", "two"}

\* opponent.turn(node) of a scripted opponent: the state of the node it returns
OpponentReply(st) == get_available_child_nodes(st)[IF opp = "one" THEN 1 ELSE 2][1]

\* an expansion without the folding loop of lines 178-182
Fold_none(N, E, kids, i) == [N |-> N, E |-> E, asked |-> <<>>]

\* an entry of the history: an opponent call on persisted node n ("ask"), or
\* a roll-out ply of kind ev played from the copy with state st
Event(ev, n, st) == [ev |-> ev, on |-> n, st |-> st]

\* _fit, lines 178-182: for the i-th and later children of the expanded node,
\* ask the opponent for its reply and make it the child's only child; asked
\* lists the opponent.turn calls made, in order
RECURSIVE Fold(_, _, _, _)
Fold(N, E, kids, i) ==
    IF i > Len(kids) THEN [N |-> N, E |-> E, asked |-> <<>>]
    ELSE LET child_node == E[kids[i]].child
         IN  IF StFinish(N[child_node].st) THEN Fold(N, E, kids, i + 1)
             ELSE LET fresh == opp \in Scripted
                      grand_child_node == IF fresh THEN Len(N) + 1 ELSE child_node
                      N1 == IF fresh
                            THEN Append(N, TreeNode(OpponentReply(N[child_node].st), 0))
                            ELSE N
                      E1 == Append(E, TreeEdge(SyntheticPrior, child_node, grand_child_node))
                      N2 == [N1 EXCEPT ![child_node].children = <<Len(E1)>>]
                      rest == Fold(N2, E1, kids, i + 1)
                  IN  [rest EXCEPT !.asked =
                          <<Event("ask", child_node, N[child_node].st)>> \o @]

\* ------------------------------------------------ selection and commit
\* Natural numbers of any size are sequences of base-Limb digits, lowest
\* first and without leading zeros (<<>> is 0).  The arithmetic is written as
\* functions, which take their arguments by value.
Mag == Seq(Nat)

Trim[a \in Mag] ==
    IF a = <<>> THEN a
    ELSE IF a[Len(a)] = 0 THEN Trim[SubSeq(a, 1, Len(a) - 1)] ELSE a

\* the natural number m
Big[m \in Nat] == IF m = 0 THEN <<>> ELSE <<m % Limb>> \o Big[m \div Limb]

\* a * Limb^d and the whole part of a / Limb^d
Up[a \in Mag, d \in Nat] == IF a = <<>> THEN a ELSE [i \in 1..d |-> 0] \o a
Down[a \in Mag, d \in Nat] == IF Len(a) <= d THEN <<>> ELSE SubSeq(a, d + 1, Len(a))

BAddC[a \in Mag, b \in Mag, c \in Nat] ==
    IF a = <<>> /\ b = <<>> THEN (IF c = 0 THEN <<>> ELSE <<c>>)
    ELSE LET x == (IF a = <<>> THEN 0 ELSE a[1]) + (IF b = <<>> THEN 0 ELSE b[1]) + c
         IN  <<x % Limb>> \o BAddC[IF a = <<>> THEN a ELSE Tail(a),
                                   IF b = <<>> THEN b ELSE Tail(b), x \div Limb]

BAdd[a \in Mag, b \in Mag] == BAddC[a, b, 0]

\* a - b - c for a >= b + c
BSubC[a \in Mag, b \in Mag, c \in Nat] ==
    IF a = <<>> THEN <<>>
    ELSE LET x == a[1] - (IF b = <<>> THEN 0 ELSE b[1]) - c
         IN  <<x % Limb>> \o BSubC[Tail(a), IF b = <<>> THEN b ELSE Tail(b),
                                   IF x < 0 THEN 1 ELSE 0]

BSub[a \in Mag, b \in Mag] == Trim[BSubC[a, b, 0]]

BLessAt[a \in Mag, b \in Mag, i \in Nat] ==
    IF i = 0 THEN FALSE
    ELSE IF a[i] # b[i] THEN a[i] < b[i] ELSE BLessAt[a, b, i - 1]

BLess[a \in Mag, b \in Mag] ==
    IF Len(a) # Len(b) THEN Len(a) < Len(b) ELSE BLessAt[a, b, Len(a)]

\* a * m + c for a natural number m below 200000
BMulC[a \in Mag, m \in Nat, c \in Nat] ==
    IF a = <<>> THEN Big[c]
    ELSE LET x == a[1] * m + c
         IN  <<x % Limb>> \o BMulC[Tail(a), m, x \div Limb]

BMulS[a \in Mag, m \in Nat] == IF m = 0 THEN <<>> ELSE BMulC[a, m, 0]

BMul[a \in Mag, b \in Mag] ==
    IF a = <<>> \/ b = <<>> THEN <<>>
    ELSE BAdd[BMulS[b, a[1]], Up[BMul[Tail(a), b], 1]]

\* quotient (digits not yet trimmed) and remainder of a by a natural number
\* m in 1..200000
BDivR[a \in Mag, m \in Nat] ==
    IF a = <<>> THEN <<<<>>, 0>>
    ELSE \* qr[1] the quotient and qr[2] the remainder of the higher digits
         CHOOSE res \in {<< <<(qr[2] * Limb + a[1]) \div m>> \o qr[1],
                            (qr[2] * Limb + a[1]) % m >> : qr \in {BDivR[Tail(a), m]}} : TRUE

BDivS[a \in Mag, m \in Nat] == Trim[BDivR[a, m][1]]

Odd[a \in Mag] == a # <<>> /\ a[1] % 2 = 1

Abs(m) == IF m < 0 THEN -m ELSE m
Min(m, n) == IF m < n THEN m ELSE n
Max(m, n) == IF m < n THEN n ELSE m

\* 2^d, for d up to Chunk
Pow2[d \in Nat] == IF d = 0 THEN 1 ELSE 2 * Pow2[d - 1]

\* a * 2^d
ShiftL[a \in Mag, d \in Nat] ==
    IF d = 0 THEN a ELSE ShiftL[BMulS[a, Pow2[Min(d, Chunk)]], d - Min(d, Chunk)]

\* <<the whole part of a / 2^d, whether the part dropped or lost is non-zero>>
ShiftR[a \in Mag, d \in Nat, lost \in BOOLEAN] ==
    IF d = 0 \/ a = <<>> THEN <<a, lost>>
    ELSE CHOOSE res \in {ShiftR[Trim[qr[1]], d - Min(d, Chunk), lost \/ qr[2] # 0] :
                         qr \in {BDivR[a, Pow2[Min(d, Chunk)]]}} : TRUE

\* the number of binary digits of a
BitLen[a \in Mag] ==
    IF a = <<>> THEN 0
    ELSE IF Len(a) = 1 /\ a[1] = 1 THEN 1
    ELSE IF Len(a) = 1 /\ a[1] < Pow2[Chunk] THEN 1 + BitLen[<<a[1] \div 2>>]
    ELSE Chunk + BitLen[BDivS[a, Pow2[Chunk]]]

\* ----------------------------------------------------------- np.float64
\* A double is [neg, m, e], the number (-1)^neg * m * 2^e with m below
\* 2^Digits, and either m at least 2^(Digits-1) and e at least -MinBits, or
\* e = -MinBits (a subnormal; 0.0 is m = 0).  Every operation rounds the
\* exact result to the nearest double, a tie to the even m.
Double == [neg : BOOLEAN, m : Mag, e : Int]

Zero == [neg |-> FALSE, m |-> <<>>, e |-> -MinBits]

\* 2^(Digits-1) and 2^Digits
HalfTop == <<496, 2737, 5996, 4503>>
Top == <<992, 5474, 1992, 9007>>

Unit == [neg |-> FALSE, m |-> HalfTop, e |-> 1 - Digits]

\* the double from <<2 * m + the next binary digit, whether anything below
\* that digit is non-zero>> and the exponent e of m
Pack[neg \in BOOLEAN, qs \in Mag \X BOOLEAN, e \in Int] ==
    CHOOSE res \in
        {IF m = <<>> THEN Zero
         ELSE IF m = Top THEN [neg |-> neg, m |-> HalfTop, e |-> e + 1]
         ELSE [neg |-> neg, m |-> m, e |-> e] :
         m \in {IF Odd[qs[1]] /\ (qs[2] \/ Odd[BDivS[qs[1], 2]])
                THEN BAdd[BDivS[qs[1], 2], <<1>>] ELSE BDivS[qs[1], 2]}} : TRUE

\* the double nearest to (n + d) * 2^e, where n has len binary digits and d,
\* in [0, 1), is non-zero iff lost (and then len is at least Digits + 2)
RoundAt[neg \in BOOLEAN, n \in Mag, e \in Int, lost \in BOOLEAN, len \in Nat] ==
    IF n = <<>> THEN Zero
    ELSE IF Max(len - Digits, -MinBits - e) <= 0
         THEN [neg |-> neg, m |-> ShiftL[n, Min(Digits - len, e + MinBits)],
               e |-> e - Min(Digits - len, e + MinBits)]
    ELSE Pack[neg, ShiftR[n, Max(len - Digits, -MinBits - e) - 1, lost],
              e + Max(len - Digits, -MinBits - e)]

Round[neg \in BOOLEAN, n \in Mag, e \in Int, lost \in BOOLEAN] ==
    RoundAt[neg, n, e, lost, BitLen[n]]

\* float(n) for an integer n
FromInt[n \in Int] == Round[n < 0, Big[Abs(n)], 0, FALSE]

\* |a| < |b|
Smaller[a \in Double, b \in Double] == a.e < b.e \/ (a.e = b.e /\ BLess[a.m, b.m])

\* a < b
Less[a \in Double, b \in Double] ==
    IF a.neg # b.neg THEN a.neg /\ (a.m # <<>> \/ b.m # <<>>)
    ELSE IF a.neg THEN Smaller[b, a] ELSE Smaller[a, b]

Neg[a \in Double] == [neg |-> ~a.neg /\ a.m # <<>>, m |-> a.m, e |-> a.e]

\* a * b
Mul[a \in Double, b \in Double] ==
    Round[a.neg # b.neg, BMul[a.m, b.m], a.e + b.e, FALSE]

\* hi + lo for |hi| >= |lo| > 0: exactly when the exponents are at most Reach
\* apart; beyond that lo is below a 2^(Guard)-th of the last place of hi and
\* only tells on which side of hi the sum lies
AddTo[hi \in Double, lo \in Double] ==
    IF hi.e - lo.e > Reach
    THEN Round[hi.neg, IF hi.neg = lo.neg THEN ShiftL[hi.m, Guard]
                       ELSE BSub[ShiftL[hi.m, Guard], <<1>>], hi.e - Guard, TRUE]
    ELSE IF hi.neg = lo.neg
         THEN Round[hi.neg, BAdd[ShiftL[hi.m, hi.e - lo.e], lo.m], lo.e, FALSE]
    ELSE Round[hi.neg, BSub[ShiftL[hi.m, hi.e - lo.e], lo.m], lo.e, FALSE]

\* a + b and a - b
Add[a \in Double, b \in Double] ==
    IF a.m = <<>> THEN b
    ELSE IF b.m = <<>> THEN a
    ELSE IF Smaller[a, b] THEN AddTo[b, a] ELSE AddTo[a, b]

Sub[a \in Double, b \in Double] == Add[a, Neg[b]]

\* the binary digits of a quotient: from the remainder r < d and the digits q
\* so far, more further digits; <<digits, whether the division left a
\* remainder>>
DivBits[r \in Mag, d \in Mag, q \in Mag, more \in Nat] ==
    IF more = 0 THEN <<q, r # <<>>>>
    ELSE IF BLess[BMulS[r, 2], d] THEN DivBits[BMulS[r, 2], d, BMulS[q, 2], more - 1]
    ELSE DivBits[BSub[BMulS[r, 2], d], d, BAdd[BMulS[q, 2], <<1>>], more - 1]

\* the quotient of am * 2^ae by bm * 2^be, both am and bm with Digits binary
\* digits
DivAt[neg \in BOOLEAN, am \in Mag, ae \in Int, bm \in Mag, be \in Int] ==
    CHOOSE res \in {Round[neg, qs[1], ae - be - (Digits + Guard), qs[2]] :
                    qs \in {IF BLess[am, bm] THEN DivBits[am, bm, <<>>, Digits + Guard]
                            ELSE DivBits[BSub[am, bm], bm, <<1>>, Digits + Guard]}} : TRUE

\* a / b for b # 0
Div[a \in Double, b \in Double] ==
    IF a.m = <<>> THEN Zero
    ELSE IF b = Unit THEN a
    ELSE DivAt[a.neg # b.neg,
               ShiftL[a.m, Digits - BitLen[a.m]], a.e - (Digits - BitLen[a.m]),
               ShiftL[b.m, Digits - BitLen[b.m]], b.e - (Digits - BitLen[b.m])]

\* the largest r with r * r <= m, for lo * lo <= m < hi * hi
ISqrtIn[m \in Nat, lo \in Nat, hi \in Nat] ==
    IF hi - lo <= 1 THEN lo
    ELSE IF ((lo + hi) \div 2) * ((lo + hi) \div 2) <= m
         THEN ISqrtIn[m, (lo + hi) \div 2, hi]
         ELSE ISqrtIn[m, lo, (lo + hi) \div 2]

ISqrt(m) == ISqrtIn[m, 0, 46341]

\* the whole part of the square root of x + res * res, digit by digit: bit is
\* a power of 4 and res a multiple of 2 * bit
SqrtBits[x \in Mag, res \in Mag, bit \in Mag] ==
    IF bit = <<>> THEN res
    ELSE IF BLess[x, BAdd[res, bit]]
         THEN SqrtBits[x, BDivS[res, 2], BDivS[bit, 4]]
    ELSE SqrtBits[BSub[x, BAdd[res, bit]], BAdd[BDivS[res, 2], bit], BDivS[bit, 4]]

\* np.sqrt(n) for a visit count n (below 2^31): exact for a perfect square,
\* otherwise from the whole part of sqrt(n) * 2^(Digits + Guard)
Sqrt[n \in Nat] ==
    IF ISqrt(n) * ISqrt(n) = n THEN FromInt[ISqrt(n)]
    ELSE Round[FALSE, SqrtBits[ShiftL[Big[n], 2 * (Digits + Guard)], <<>>,
                               ShiftL[<<1>>, 2 * (Digits + Guard) + 30]],
               -(Digits + Guard), TRUE]

parent_visit_count(e) ==
    LET parent_edge == nodes[edges[e].parent].parent_edge
    IN  IF parent_edge = 0 THEN 0 ELSE edges[parent_edge].visit_count

\* edge_criteria(edge), lines 110-121: the score
\*     value / plays + c * prior * sqrt(root) / plays
\* with plays = 1 + visit_count and root the parent's visit count, kept as
\* the four integers it is computed from; Float gives its np.float64
edge_criteria(e) ==
    [value |-> edges[e].value,
     prior |-> edges[e].prior,
     root  |-> parent_visit_count(e),
     plays |-> 1 + edges[e].visit_count]

Score == [value : Int, prior : Int, root : Nat, plays : Nat \ {0}]

\* c = .3
C == Div[FromInt[CNum], FromInt[CDen]]

\* the number edge_criteria returns for the score x: exploit + explore, with
\* explore = ((c * prior) * np.sqrt(root)) / plays
Float[x \in Score] ==
    Add[Div[FromInt[x.value], FromInt[x.plays]],
        Div[Mul[Mul[C, FromInt[x.prior]], Sqrt[x.root]], FromInt[x.plays]]]

\* integers around the score x: Lo[x] < Float[x] < Hi[x], both within 4 of
\* it (for c * prior * sqrt(root) below 2^24)
Lo[x \in Score] ==
    (CDen * x.value
        + (CNum * x.prior * (ISqrt(x.root * 10000) + (IF x.prior < 0 THEN 1 ELSE 0)))
            \div 100) \div (CDen * x.plays) - 1

Hi[x \in Score] ==
    (CDen * x.value
        + (CNum * x.prior * (ISqrt(x.root * 10000) + (IF x.prior < 0 THEN 0 ELSE 1)))
            \div 100 + 1) \div (CDen * x.plays) + 2

\* the score a is smaller than the score b
ScoreLess[a \in Score, b \in Score] ==
    IF Hi[a] <= Lo[b] THEN TRUE
    ELSE IF Hi[b] <= Lo[a] THEN FALSE
    ELSE Less[Float[a], Float[b]]

\* ln 2 and 1 / ln 2 in units of Limb^(-FracLimbs)
Ln2 == <<7232, 941, 9453, 559, 4718, 6931>>
InvLn2 == <<9924, 735, 9634, 888, 9504, 4426, 1>>
One == <<0, 0, 0, 0, 0, 0, 1>>

\* the product of two numbers in units of Limb^(-FracLimbs), rounded down
FMul[a \in Mag, b \in Mag] == Down[BMul[a, b], FracLimbs]

\* exp(f) for f in [0, 1], in units of Limb^(-FracLimbs): its power series
\* from the term of index i - 1 on, added to acc
Series[f \in Mag, term \in Mag, i \in Nat, acc \in Mag] ==
    IF term = <<>> THEN acc
    ELSE Series[f, BDivS[FMul[term, f], i], i + 1, BAdd[acc, term]]

\* the doubles np.exp can return for a number 2^(-j) * exp(r), 0 <= r < 1,
\* r in units of Limb^(-FracLimbs).  The C library's exp is not always the
\* nearest double: it is within Slack 2^Guard-ths of a last place of the
\* nearest-rounded exact value, so it is the double nearest to the value,
\* or either of its two neighbours when the value is that close to the
\* middle between them.
ExpAt[j \in Nat, r \in Mag] ==
    {Round[FALSE, n, -j - (Digits + Guard - 1), TRUE] :
        n \in {IF up THEN BAdd[q, <<Slack>>] ELSE BSub[q, <<Slack>>] :
               up \in BOOLEAN,
               q \in {Down[BMul[Series[r, One, 1, <<>>],
                                ShiftL[<<1>>, Digits + Guard - 1]], FracLimbs]}}}

\* the least j, from j on, with j * ln 2 >= g, for g in units of
\* Limb^(-FracLimbs)
Halvings[g \in Mag, j \in Nat] ==
    IF BLess[BMulS[Ln2, j], g] THEN Halvings[g, j + 1] ELSE j

\* exp(-g) = 2^(-j) * exp(j * ln 2 - g)
ExpBy[g \in Mag, j \in Nat] == ExpAt[j, BSub[BMulS[Ln2, j], g]]

\* the whole part of a number below Limb in units of Limb^(-FracLimbs)
Whole[a \in Mag] == IF Len(a) <= FracLimbs THEN 0 ELSE a[FracLimbs + 1]

ExpOf[g \in Mag] == ExpBy[g, Halvings[g, Whole[FMul[g, InvLn2]]]]

\* np.exp(-g) for a double g >= 0: the set of doubles it can be.  From
\* FarGap on it is 0.0, which is what exp(-g) rounds to once it is at most
\* 2^(-MinBits - 1), that is from g = (MinBits + 1) * ln 2 = 745.13... on.
Exp[g \in Double] ==
    IF g.m = <<>> THEN {Unit}
    ELSE IF ~Smaller[g, FromInt[FarGap]] THEN {Zero}
    ELSE ExpOf[ShiftR[Up[g.m, FracLimbs], -g.e, FALSE][1]]

\* the np.float64 of the scores x, from those of the scores before the i-th
\* (pre) on; a score equal to an earlier one has the value of that one
Floats[x \in Seq(Score), i \in Nat, pre \in Seq(Double)] ==
    IF i > Len(x) THEN pre
    ELSE IF \E j \in 1..(i - 1) : x[j] = x[i]
    THEN Floats[x, i + 1, Append(pre, pre[CHOOSE j \in 1..(i - 1) : x[j] = x[i]])]
    ELSE Floats[x, i + 1, Append(pre, Float[x[i]])]

\* np.max over v[i..] and m
MaxOf[v \in Seq(Double), i \in Nat, m \in Double] ==
    IF i > Len(v) THEN m ELSE MaxOf[v, i + 1, IF Less[m, v[i]] THEN v[i] ELSE m]

\* x - np.max(x) over v[i..], negated
Gaps[v \in Seq(Double), i \in Nat, m \in Double] ==
    IF i > Len(v) THEN <<>> ELSE <<Sub[m, v[i]]>> \o Gaps[v, i + 1, m]

\* np.exp(-g): the arrays it can be that begin with pre, an array it can be
\* for the entries before the i-th (equal entries of g have equal values)
Exps[g \in Seq(Double), i \in Nat, pre \in Seq(Double)] ==
    IF i > Len(g) THEN {pre}
    ELSE IF \E j \in 1..(i - 1) : g[j] = g[i]
    THEN Exps[g, i + 1, Append(pre, pre[CHOOSE j \in 1..(i - 1) : g[j] = g[i]])]
    ELSE UNION {Exps[g, i + 1, Append(pre, h)] : h \in Exp[g[i]]}

\* acc + a[i] + a[i + step] + ... up to a[last], one addition after the other
Run[a \in Seq(Double), i \in Nat, step \in Nat, last \in Nat, acc \in Double] ==
    IF i > last THEN acc ELSE Run[a, i + step, step, last, Add[acc, a[i]]]

\* a.sum() as numpy adds a float64 array up: up to 7 entries one after the
\* other; up to 128 entries in 8 interleaved runs over the whole groups of
\* 8, the runs added in pairs and the rest one after the other; a longer
\* array in two parts, the first a multiple of 8 long
Blocks[a \in Seq(Double), full \in Nat] ==
    Run[a, full + 1, 1, Len(a),
        Add[Add[Add[Run[a, 9, 8, full, a[1]], Run[a, 10, 8, full, a[2]]],
                Add[Run[a, 11, 8, full, a[3]], Run[a, 12, 8, full, a[4]]]],
            Add[Add[Run[a, 13, 8, full, a[5]], Run[a, 14, 8, full, a[6]]],
                Add[Run[a, 15, 8, full, a[7]], Run[a, 16, 8, full, a[8]]]]]]

Sum[a \in Seq(Double)] ==
    IF Len(a) < 8 THEN Run[a, 1, 1, Len(a), Zero]
    ELSE IF Len(a) <= 128 THEN Blocks[a, Len(a) - (Len(a) % 8)]
    ELSE Add[Sum[SubSeq(a, 1, (Len(a) \div 2) - ((Len(a) \div 2) % 8))],
             Sum[SubSeq(a, (Len(a) \div 2) - ((Len(a) \div 2) % 8) + 1, Len(a))]]

\* a / s, from the quotients of the entries before the i-th (pre) on; an
\* entry equal to an earlier one has the quotient of that one
Over[a \in Seq(Double), i \in Nat, s \in Double, pre \in Seq(Double)] ==
    IF i > Len(a) THEN pre
    ELSE IF \E j \in 1..(i - 1) : a[j] = a[i]
    THEN Over[a, i + 1, s, Append(pre, pre[CHOOSE j \in 1..(i - 1) : a[j] = a[i]])]
    ELSE Over[a, i + 1, s, Append(pre, Div[a[i], s])]

\* A weight is given by two doubles it lies between, [lo, hi]; lo = hi is
\* the weight itself.
Exactly(p) == [i \in 1..Len(p) |-> [lo |-> p[i], hi |-> p[i]]]

\* 2^(-40)
Least == [neg |-> FALSE, m |-> HalfTop, e |-> -92]

\* the largest Lo and the largest Hi over x[i..] and m
MaxLo[x \in Seq(Score), i \in Nat, m \in Int] ==
    IF i > Len(x) THEN m ELSE MaxLo[x, i + 1, Max(m, Lo[x[i]])]

MaxHi[x \in Seq(Score), i \in Nat, m \in Int] ==
    IF i > Len(x) THEN m ELSE MaxHi[x, i + 1, Max(m, Hi[x[i]])]

\* what the integers around the scores x[i..] tell of their weights, lo and
\* hi being integers around the largest score: an entry less than NearGap
\* under the largest has a weight of at least exp(-NearGap) / Len(x), which
\* is above Least for up to MaxQuick entries; an entry more than FarGap
\* under it has the weight 0.0; of any other entry they tell nothing
Quick[x \in Seq(Score), i \in Nat, lo \in Int, hi \in Int] ==
    IF i > Len(x) THEN <<>>
    ELSE <<IF hi - Lo[x[i]] <= NearGap THEN [lo |-> Least, hi |-> Unit]
           ELSE IF lo - Hi[x[i]] >= FarGap THEN [lo |-> Zero, hi |-> Zero]
           ELSE [lo |-> Zero, hi |-> Unit]>> \o Quick[x, i + 1, lo, hi]

\* e_x / e_x.sum() for every array e_x that np.exp(x - np.max(x)) can be
Slow[x \in Seq(Score)] ==
    {Exactly(Over[e, 1, Sum[e], <<>>]) :
        e \in UNION {Exps[Gaps[v, 1, MaxOf[v, 2, v[1]]], 1, <<>>] : v \in {Floats[x, 1, <<>>]}}}

\* the weights by the integers around the scores when these settle every
\* entry, else by the doubles
Weigh[x \in Seq(Score)] ==
    CHOOSE res \in
        {IF Len(x) <= MaxQuick /\ \A i \in 1..Len(x) : quick[i] # [lo |-> Zero, hi |-> Unit]
         THEN {quick} ELSE Slow[x] :
         quick \in {Quick[x, 1, MaxLo[x, 2, Lo[x[1]]], MaxHi[x, 2, Hi[x[1]]]]}} : TRUE

\* the commented-out variant e_x = x == x.max(): only maximal entries weigh
softmax_hard(x) ==
    IF x = <<>> THEN {}
    ELSE
    {Exactly(Over[e, 1, Sum[e], <<>>]) :
        e \in {[i \in 1..Len(x) |->
                   IF \A j \in 1..Len(x) : ~ScoreLess[x[i], x[j]] THEN Unit ELSE Zero]}}

\* softmax(x), lines 94-98, for the list of scores x: the arrays of weights
\* it can return (one, unless np.exp can return either of two doubles; none
\* for an empty list, on which np.max raises ValueError)
softmax(x) == IF x = <<>> THEN {} ELSE Weigh[x]

\* [self.edge_criteria(c) for c in children], from the i-th child on
RECURSIVE criteria(_, _)
criteria(ch, i) ==
    IF i > Len(ch) THEN <<>> ELSE <<edge_criteria(ch[i])>> \o criteria(ch, i + 1)

\* the arrays of weights _fit can build over the children of node n (line
\* 165)
weights(n) ==
    LET x == criteria(nodes[n].children, 1)
    IN  softmax(x)

\* p.cumsum(): acc is the sum of p[..i-1]
Cum[p \in Seq(Double), i \in Nat, acc \in Double] ==
    IF i > Len(p) THEN <<>>
    ELSE CHOOSE res \in {<<c>> \o Cum[p, i + 1, c] : c \in {Add[acc, p[i]]}} : TRUE

\* cdf = p.cumsum(); cdf /= cdf[-1]
Cdf[p \in Seq(Double)] ==
    CHOOSE res \in {Over[c, 1, c[Len(c)], <<>>] : c \in {Cum[p, 1, Zero]}} : TRUE

\* the least number of steps of 2^(-GridBits) that reach c, for a double c >= 0
Grid[c \in Double] ==
    IF c.e >= -GridBits THEN ShiftL[c.m, c.e + GridBits]
    ELSE CHOOSE res \in {IF qs[2] THEN BAdd[qs[1], <<1>>] ELSE qs[1] :
                         qs \in {ShiftR[c.m, -GridBits - c.e, FALSE]}} : TRUE

\* cdf.searchsorted(u, side='right') is i - 1 (the i-th entry, counted from
\* 1) for some draw u, a multiple of 2^(-GridBits) in [0, 1): i is the
\* number of entries of cdf that are <= u, plus 1
Hit[cdf \in Seq(Double), i \in Nat] ==
    BLess[IF i = 1 THEN <<>> ELSE Grid[cdf[i - 1]], Grid[cdf[i]]]

\* np.random.choice(children, p = w), line 166, can return the i-th child.
\* Weights known only by their bounds have a cdf that rises by more than
\* 2^(-GridBits) at each non-zero one, so that some draw falls on it.
choice(w, i) ==
    IF \E j \in 1..Len(w) : w[j].lo # w[j].hi
    THEN w[i].lo # Zero
    ELSE Hit[Cdf[[j \in 1..Len(w) |-> w[j].lo]], i]

\* c.value / (1 + c.visit_count) of edge a is smaller than that of edge b
AvgLess(a, b) ==
    edges[a].value * (1 + edges[b].visit_count)
        < edges[b].value * (1 + edges[a].visit_count)

\* argmax that keeps the last maximal index
argmax_last(ch) ==
    CHOOSE i \in 1..Len(ch) :
        /\ \A j \in 1..Len(ch) : ~AvgLess(ch[i], ch[j])
        /\ \A j \in (i + 1)..Len(ch) : AvgLess(ch[j], ch[i])

\* np.argmax over the averages of the edges ch: the first maximal index
argmax(ch) ==
    CHOOSE i \in 1..Len(ch) :
        /\ \A j \in 1..Len(ch) : ~AvgLess(ch[i], ch[j])
        /\ \A j \in 1..(i - 1) : AvgLess(ch[j], ch[i])


\* ------------------------------------------------------------------ Init
\* a root for a pile in Piles, an opponent in Opps, rewards that depend on the
\* player asked for or not (Persps), c iterations to run
InitWith(Piles, Opps, Persps, Priors, c) ==
    /\ \E p \in Piles : nodes = << TreeNode([pile |-> p, turn |-> 1], 0) >>
    /\ cap = c
    /\ edges = <<>>
    /\ calls = <<>>
    /\ root = 1
    /\ opp \in Opps
    /\ persp \in Persps
    /\ priors \in Priors
    /\ pc = "idle"
    /\ cur = 0 /\ sel_node = 0 /\ sel_action = 0
    /\ ro = NoRo /\ first_turn = TRUE /\ opponent_turn = TRUE
    /\ n_req = 0 /\ k = 0 /\ total = 0
    /\ lastop = "none" /\ err = "none" /\ ret = 0 /\ action_idx = 0
    /\ ncall = 0 /\ arg = 0
    /\ expanded = {}
    /\ log = <<>>

Init == InitWith(1..MaxPile, Scripted \cup {"pass"}, {TRUE},
                 {<<1, 2>>, <<1, BigPrior>>, <<BigPrior, 2>>}, MaxIter)

\* The wide scenario: a decision process with Wide actions (take 1 to Wide
\* objects) of which the last has the prior HighPrior and the others 1, a pile
\* of 2 and the opponent that takes one object.
InitWide == InitWith({2}, {"one"}, {TRUE},
                     {[a \in 1..Wide |-> IF a = Wide THEN HighPrior ELSE 1]}, WideIter)

\* the history of an update() call started on edge e with reward r
Record(e, r) == calls' = [calls EXCEPT ![e][r] = @ + 1]

\* the history for the edges of heap E that calls does not cover yet
Grown(E) == calls \o [i \in 1..(Len(E) - Len(calls)) |-> NoCalls]

\* ------------------------------------------------------------- fit, _fit
\* fit(opponent, num_iter), lines 153-154, up to the start of the first _fit
Fit(n) ==
    /\ pc = "idle"
    /\ total + n <= cap
    /\ n_req' = n /\ k' = 0
    /\ lastop' = "fit" /\ err' = "none" /\ arg' = 0 /\ action_idx' = 0
    /\ log' = <<>>
    /\ IF n = 0 THEN pc' = "idle" /\ cur' = cur
                ELSE pc' = "select" /\ cur' = root
    /\ UNCHANGED <<nodes, edges, root, opp, persp, priors, cap, sel_node, sel_action, ro,
                   first_turn, opponent_turn, total, ret, calls, ncall, expanded>>

\* a for loop that runs once more: range(num_iter + 1)
IterEnd_extra ==
    /\ k' = k + 1
    /\ total' = total + 1
    /\ log' = <<>>
    /\ IF k + 1 < n_req + 1 THEN pc' = "select" /\ cur' = root
                            ELSE pc' = "idle" /\ cur' = cur

\* the end of one _fit: the for loop of fit goes on or fit returns
IterEnd ==
    /\ k' = k + 1
    /\ total' = total + 1
    /\ log' = <<>>
    /\ IF k + 1 < n_req THEN pc' = "select" /\ cur' = root
                        ELSE pc' = "idle" /\ cur' = cur

\* _fit, lines 164-167: one pass of the selection loop
FitSelect ==
    /\ pc = "select"
    /\ ~is_terminal(cur)
    /\ \E w \in weights(cur) :
           \E i \in 1..Len(nodes[cur].children) :
               /\ cur' = edges[nodes[cur].children[i]].child
               /\ choice(w, i)
    /\ UNCHANGED <<nodes, edges, root, opp, persp, priors, cap, pc, sel_node, sel_action,
                   ro, first_turn, opponent_turn, n_req, k, total, lastop, err,
                   ret, action_idx, calls, ncall, arg, expanded, log>>

\* a reward asked for the player of the current root
FinishedReward_root(n) == get_reward(nodes[n].st, nodes[root].st.turn)

\* line 172: cur_node.get_reward(player=cur_node.node_turn)
FinishedReward(n) == get_reward(nodes[n].st, nodes[n].st.turn)

\* a reward asked for the player of the roll-out's end state
RollOutReward_end == get_reward(ro.st, ro.st.turn)

\* line 204: roll_out_node.get_reward(player=sel_node.node_turn)
RollOutReward == get_reward(ro.st, nodes[sel_node].st.turn)

\* _fit, lines 170-173: selection stopped at a finished node
FitFinished ==
    /\ pc = "select"
    /\ is_terminal(cur)
    /\ is_finish(cur)
    /\ LET pe == nodes[cur].parent_edge
           r == FinishedReward(cur)
       IN  IF pe # 0
           THEN edges' = update(edges, pe, r) /\ Record(pe, r)
           ELSE UNCHANGED <<edges, calls>>
    /\ IterEnd
    /\ UNCHANGED <<nodes, root, opp, persp, priors, cap, sel_node, sel_action, ro,
                   first_turn, opponent_turn, n_req, lastop, err, ret,
                   action_idx, ncall, arg, expanded>>

\* _fit, lines 175-182: expansion of the selected node and opponent folding
FitExpand ==
    /\ pc = "select"
    /\ is_terminal(cur)
    /\ ~is_finish(cur)
    /\ sel_node' = cur
    /\ LET x == expand(nodes, edges, cur)
           f == Fold(x.N, x.E, x.N[cur].children, 1)
       IN  nodes' = f.N /\ edges' = f.E /\ calls' = Grown(f.E) /\ log' = f.asked
    /\ expanded' = expanded \cup {cur}
    /\ pc' = "rollout_pick"
    /\ UNCHANGED <<root, opp, persp, priors, cap, cur, sel_action, ro, first_turn,
                   opponent_turn, n_req, k, total, lastop, err, ret, action_idx,
                   ncall, arg>>

\* a copy that holds a child edge whatever the node it copies
CopyOf_kids(n) == [st |-> nodes[n].st, src |-> n, nkids |-> 1]

\* the node a deep copy holds for persisted node n
CopyOf(n) == [st |-> nodes[n].st, src |-> n, nkids |-> Len(nodes[n].children)]

\* _fit, lines 185-190: the selected action and the detached copy of its child
FitRollOutPick ==
    /\ pc = "rollout_pick"
    /\ \E i \in 1..Len(nodes[cur].children) :
          /\ sel_action' = nodes[cur].children[i]
          /\ cur' = edges[nodes[cur].children[i]].child
          /\ ro' = CopyOf(edges[nodes[cur].children[i]].child)
    /\ first_turn' = TRUE
    /\ opponent_turn' = TRUE
    /\ pc' = "rollout"
    /\ UNCHANGED <<nodes, edges, root, opp, persp, priors, cap, sel_node, n_req, k, total,
                   lastop, err, ret, action_idx, calls, ncall, arg, expanded, log>>

\* _fit, lines 192-195: an own ply of the roll-out; expand() asserts that the
\* node has no children, and the AssertionError leaves fit
FitOwnPly ==
    /\ pc = "rollout"
    /\ ~StFinish(ro.st)
    /\ ~opponent_turn
    /\ log' = Append(log, Event("own", 0, ro.st))
    /\ IF ro.nkids # 0
       THEN /\ pc' = "idle" /\ err' = "AssertionError"
            /\ UNCHANGED <<ro, opponent_turn>>
       ELSE /\ \E i \in 1..Len(get_available_child_nodes(ro.st)) :
                  ro' = [st |-> get_available_child_nodes(ro.st)[i][1],
                         src |-> 0, nkids |-> 0]
            /\ opponent_turn' = ~opponent_turn
            /\ UNCHANGED <<pc, err>>
    /\ UNCHANGED <<nodes, edges, root, opp, persp, priors, cap, cur, sel_node, sel_action,
                   first_turn, n_req, k, total, lastop, ret, action_idx, calls,
                   ncall, arg, expanded>>

\* a first opponent ply without line 202, opponent_turn = not opponent_turn
FitFirstPly_again ==
    /\ pc = "rollout"
    /\ ~StFinish(ro.st)
    /\ opponent_turn
    /\ first_turn
    /\ first_turn' = FALSE
    /\ log' = Append(log, Event("first", 0, ro.st))
    /\ ro' = CopyOf(edges[nodes[ro.src].children[1]].child)
    /\ UNCHANGED <<nodes, edges, root, opp, persp, priors, cap, pc, cur, sel_node,
                   sel_action, opponent_turn, n_req, k, total, lastop, err, ret,
                   action_idx, calls, ncall, arg, expanded>>

\* _fit, lines 197-199: the first opponent ply descends into children[0].child
FitFirstPly ==
    /\ pc = "rollout"
    /\ ~StFinish(ro.st)
    /\ opponent_turn
    /\ first_turn
    /\ first_turn' = FALSE
    /\ log' = Append(log, Event("first", 0, ro.st))
    /\ IF ro.nkids = 0
       THEN /\ pc' = "idle" /\ err' = "IndexError"
            /\ UNCHANGED <<ro, opponent_turn>>
       ELSE /\ ro' = CopyOf(edges[nodes[ro.src].children[1]].child)
            /\ opponent_turn' = ~opponent_turn
            /\ UNCHANGED <<pc, err>>
    /\ UNCHANGED <<nodes, edges, root, opp, persp, priors, cap, cur, sel_node, sel_action,
                   n_req, k, total, lastop, ret, action_idx, calls, ncall, arg, expanded>>

\* _fit, lines 200-201: a later opponent ply asks the opponent
FitOpponentPly ==
    /\ pc = "rollout"
    /\ ~StFinish(ro.st)
    /\ opponent_turn
    /\ ~first_turn
    /\ log' = Append(log, Event("opp", 0, ro.st))
    /\ IF opp \in Scripted
       THEN ro' = [st |-> OpponentReply(ro.st), src |-> 0, nkids |-> 0]
       ELSE ro' = ro
    /\ opponent_turn' = ~opponent_turn
    /\ UNCHANGED <<nodes, edges, root, opp, persp, priors, cap, pc, cur, sel_node,
                   sel_action, first_turn, n_req, k, total, lastop, err, ret,
                   action_idx, calls, ncall, arg, expanded>>

\* _fit, line 204: the roll-out reached a finished state
FitBackprop ==
    /\ pc = "rollout"
    /\ StFinish(ro.st)
    /\ LET r == RollOutReward
       IN  edges' = update(edges, sel_action, r) /\ Record(sel_action, r)
    /\ IterEnd
    /\ UNCHANGED <<nodes, root, opp, persp, priors, cap, sel_node, sel_action, ro,
                   first_turn, opponent_turn, n_req, lastop, err, ret,
                   action_idx, ncall, arg, expanded>>

\* ------------------------------------------------------------------ turn
\* a turn() that keeps the subtree of the child it returns
Detach_keep(N, c) == N

\* line 143: action.child.children = []
Detach(N, c) == [N EXCEPT ![c].children = <<>>]

\* a turn() that returns the root itself when the root has no children
Turn_quiet(node) ==
    /\ pc = "idle"
    /\ ncall < MaxCalls
    /\ ncall' = ncall + 1
    /\ lastop' = "turn" /\ arg' = node
    /\ IF ~RootIs(node)
       THEN /\ err' = "AssertionError"
            /\ ret' = 0 /\ action_idx' = 0
            /\ UNCHANGED nodes
       ELSE IF Len(nodes[root].children) = 0
       THEN /\ err' = "none"
            /\ ret' = root /\ action_idx' = 0
            /\ UNCHANGED nodes
       ELSE LET idx == argmax(nodes[root].children)
                action == nodes[root].children[idx]
            IN  /\ err' = "none"
                /\ action_idx' = idx
                /\ nodes' = Detach(nodes, edges[action].child)
                /\ ret' = edges[action].child
    /\ UNCHANGED <<edges, root, opp, persp, priors, cap, pc, cur, sel_node, sel_action, ro,
                   first_turn, opponent_turn, n_req, k, total, calls, expanded,
                   log>>

\* turn(node), lines 140-144
Turn(node) ==
    /\ pc = "idle"
    /\ ncall < MaxCalls
    /\ ncall' = ncall + 1
    /\ lastop' = "turn" /\ arg' = node
    /\ IF ~RootIs(node)
       THEN /\ err' = "AssertionError"
            /\ ret' = 0 /\ action_idx' = 0
            /\ UNCHANGED nodes
       ELSE IF Len(nodes[root].children) = 0
       THEN /\ err' = "ValueError"
            /\ ret' = 0 /\ action_idx' = 0
            /\ UNCHANGED nodes
       ELSE LET idx == argmax(nodes[root].children)
                action == nodes[root].children[idx]
            IN  /\ err' = "none"
                /\ action_idx' = idx
                /\ nodes' = Detach(nodes, edges[action].child)
                /\ ret' = edges[action].child
    /\ UNCHANGED <<edges, root, opp, persp, priors, cap, pc, cur, sel_node, sel_action, ro,
                   first_turn, opponent_turn, n_req, k, total, calls, expanded,
                   log>>

\* the caller makes the node turn() returned the root: MonteCarloTree(node)
SetRoot ==
    /\ pc = "idle"
    /\ ret # 0 /\ ret # root
    /\ root' = ret
    /\ lastop' = "setroot" /\ err' = "none" /\ arg' = 0 /\ action_idx' = 0
    /\ UNCHANGED <<nodes, edges, opp, persp, priors, cap, pc, cur, sel_node, sel_action, ro,
                   first_turn, opponent_turn, n_req, k, total, ret, calls, ncall,
                   expanded, log>>

\* a direct call of node.expand() by the caller, lines 65-71
ExpandCall(n) ==
    /\ pc = "idle"
    /\ ncall < MaxCalls
    /\ ncall' = ncall + 1
    /\ lastop' = "expand" /\ arg' = n
    /\ IF ~NoChildren(nodes, n)
       THEN /\ err' = "AssertionError"
            /\ UNCHANGED <<nodes, edges, calls, expanded>>
       ELSE /\ err' = "none"
            /\ expanded' = expanded \cup {n}
            /\ LET x == expand(nodes, edges, n)
               IN  nodes' = x.N /\ edges' = x.E /\ calls' = Grown(x.E)
    /\ UNCHANGED <<root, opp, persp, priors, cap, pc, cur, sel_node, sel_action, ro,
                   first_turn, opponent_turn, n_req, k, total, ret, action_idx,
                   log>>

\* ------------------------------------------------------------------ Next
\* the nodes the caller passes to turn() and expand(): the root, the first
\* root and the nodes one action below the root
CallerNodes ==
    {root, 1} \cup {edges[nodes[root].children[i]].child :
                       i \in 1..Len(nodes[root].children)}

Engine ==
    \/ FitSelect
    \/ FitFinished
    \/ FitExpand
    \/ FitRollOutPick
    \/ FitOwnPly
    \/ FitFirstPly
    \/ FitOpponentPly
    \/ FitBackprop

\* a caller that trains, commits and installs the committed node as root
Next ==
    \/ \E n \in 0..MaxIter : Fit(n)
    \/ \E node \in CallerNodes : Turn(node)
    \/ SetRoot
    \/ Engine

Spec == Init /\ [][Next]_vars

\* a caller that trains one iteration at a time and commits, on the wide
\* scenario and on the ordinary ones with a big prior
InitSelect ==
    \/ InitWide
    \/ InitWith(1..MaxPile, Scripted, {TRUE}, {<<1, BigPrior>>, <<BigPrior, 2>>}, WideIter)

NextSelect ==
    \/ Fit(1)
    \/ Turn(root)
    \/ Engine

SpecSelect == InitSelect /\ [][NextSelect]_vars

\* a caller that trains and also calls expand() on nodes of the tree itself
NextExpand ==
    \/ \E n \in 0..MaxIter : Fit(n)
    \/ \E n \in CallerNodes : ExpandCall(n)
    \/ Engine

SpecExpand == Init /\ [][NextExpand]_vars

\* The two-action scenario: a root whose two actions both end the process
\* (pile 1) with rewards 1 and 0 whichever player they are asked for, the
\* pass-through opponent, a caller that trains, one iteration at a time or all
\* at once, and commits.
InitE2E == InitWith({1}, {"pass"}, {FALSE}, {<<1, 2>>}, E2EIters)

NextE2E ==
    \/ \E n \in {1, E2EIters} : Fit(n)
    \/ Turn(root)
    \/ FitSelect
    \/ FitFinished
    \/ FitExpand
    \/ FitRollOutPick
    \/ FitBackprop

SpecE2E == InitE2E /\ [][NextE2E]_vars


\* fit may be left by every step of the engine; the engine keeps running
\* until fit returns or raises
FairSpec == Spec /\ WF_vars(Engine)

\* ------------------------------------------------- vocabulary of the claims
EdgeIds == 1..Len(edges)
NodeIds == 1..Len(nodes)

\* the edges an update() call started on edge e0 walks over: e0, the edge into
\* its parent node, and so on, as far as parent_edge references lead
RECURSIVE Walk(_)
Walk(e0) ==
    LET pe == nodes[edges[e0].parent].parent_edge
    IN  {e0} \cup (IF pe = 0 THEN {} ELSE Walk(pe))

\* the edges held in the children list of node n
Out(n) == {nodes[n].children[i] : i \in 1..Len(nodes[n].children)}

\* the nodes of the structure under node n, n included (children lists only)
RECURSIVE Under(_, _)
Under(S, fuel) ==
    LET T == S \cup {edges[e].child : e \in UNION {Out(n) : n \in S}}
    IN  IF fuel = 0 \/ T = S THEN S ELSE Under(T, fuel - 1)

NodesUnder(n) == Under({n}, Len(nodes))
EdgesUnder(n) == UNION {Out(m) : m \in NodesUnder(n)}

\* edge E lies on the path that leads from the root down to edge e0
OnRootPath(E, e0) ==
    /\ E \in EdgesUnder(root)
    /\ E = e0 \/ e0 \in EdgesUnder(edges[E].child)

\* this step starts an update() call on edge e0 with reward r
Started(e0, r) == e0 \in 1..Len(calls) /\ calls'[e0][r] = calls[e0][r] + 1

\* sum of f over the finite set S of edges
RECURSIVE SumOver(_, _)
SumOver(S, f) ==
    IF S = {} THEN 0
    ELSE LET e == CHOOSE x \in S : TRUE IN f[e] + SumOver(S \ {e}, f)

\* update() calls started on edge e0, and the rewards they carried
CallCount(e0) == calls[e0][-1] + calls[e0][0] + calls[e0][1]
CallSum(e0) == calls[e0][1] - calls[e0][-1]

\* ------------------------------------------------------------------ C1
\* C1 (as claimed): whenever an iteration starts an update with reward r on an
\* edge of the tree, every edge on the path from the root down to that edge,
\* opponent-reply edges included, gains 1 visit and r in accumulated value.
C1_PropagationComplete ==
    [][\A e0 \in EdgeIds : \A r \in Rewards :
          (Started(e0, r) /\ e0 \in EdgesUnder(root)) =>
              \A E \in EdgeIds :
                  OnRootPath(E, e0) =>
                      /\ edges'[E].visit_count = edges[E].visit_count + 1
                      /\ edges'[E].value = edges[E].value + r]_vars

\* ------------------------------------------------------------------ C2
\* C2: for every edge, visit_count is the number of update calls that reached
\* it (started on it or on an edge whose walk leads over it) and value is the
\* sum of the rewards of those calls; an edge no call reached has 0 and 0.
C2_Conservation ==
    \A e \in EdgeIds :
        LET from == {e0 \in EdgeIds : e \in Walk(e0)}
        IN  /\ edges[e].visit_count = SumOver(from, [e0 \in EdgeIds |-> CallCount(e0)])
            /\ edges[e].value = SumOver(from, [e0 \in EdgeIds |-> CallSum(e0)])

\* an edge reached by calls started on two different edges, with rewards that
\* differ, and another edge that no call has reached
C2_Witness ==
    /\ pc = "idle"
    /\ \E e \in EdgeIds :
          /\ Cardinality({e0 \in EdgeIds : e \in Walk(e0) /\ CallCount(e0) > 0}) >= 2
          /\ edges[e].visit_count >= 2
    /\ \E e \in EdgeIds : edges[e].visit_count = 0


\* ------------------------------------------------------------------ C3
\* value / (1 + visit_count) of edge a is below that of edge b
Below(a, b) ==
    edges[a].value * (1 + edges[b].visit_count)
        < edges[b].value * (1 + edges[a].visit_count)

\* the two-action scenario: the edge to the reward-1 child (taking the one
\* object) and the edge to the reward-0 child (overshooting, a draw)
EdgeWin == nodes[1].children[1]
EdgeDraw == nodes[1].children[2]
CommitReturned == lastop = "turn" /\ err = "none"

\* C3 (as claimed): after at least 50 training iterations, whatever the random
\* choices were, the reward-1 edge has the strictly greater average and
\* commit(root) returns the reward-1 child.
C3_EndToEnd ==
    (pc = "idle" /\ total >= 50) =>
        /\ Below(EdgeDraw, EdgeWin)
        /\ CommitReturned => ret = edges[EdgeWin].child

\* C3 (amended): after at least 50 iterations the reward-1 edge's average is
\* never below the reward-0 edge's, it is strictly greater exactly when the
\* reward-1 edge has been visited, and commit(root) returns the reward-1 child.
C3_EndToEndAmended ==
    (pc = "idle" /\ total >= 50) =>
        /\ ~Below(EdgeWin, EdgeDraw)
        /\ Below(EdgeDraw, EdgeWin) <=> edges[EdgeWin].visit_count >= 1
        /\ CommitReturned => ret = edges[EdgeWin].child

\* a commit after 50 iterations that visited both edges
C3_Witness ==
    /\ pc = "idle" /\ total >= 50
    /\ CommitReturned
    /\ edges[EdgeWin].visit_count >= 1
    /\ edges[EdgeDraw].visit_count >= 1

\* ------------------------------------------------------------------ C4
\* C4: a commit that returns yields the child of the first edge, in the
\* root's enumeration order, whose value / (1 + visit_count) is maximal.
C4_CommitArgMax ==
    CommitReturned =>
        LET ch == nodes[root].children
        IN  /\ action_idx \in 1..Len(ch)
            /\ ret = edges[ch[action_idx]].child
            /\ \A j \in 1..Len(ch) : ~Below(ch[action_idx], ch[j])
            /\ \A j \in 1..(action_idx - 1) : Below(ch[j], ch[action_idx])

\* a commit over a tie for the maximum, after training
C4_Witness ==
    /\ CommitReturned
    /\ total >= 1
    /\ \E j \in 1..Len(nodes[root].children) :
          /\ j # action_idx
          /\ ~Below(nodes[root].children[j], nodes[root].children[action_idx])
          /\ edges[nodes[root].children[j]].visit_count >= 1

\* ------------------------------------------------------------------ C5
\* this step is a direct expand() call / a turn() call of the caller
ExpandCalled == lastop' = "expand" /\ ncall' = ncall + 1
TurnCalled == lastop' = "turn" /\ ncall' = ncall + 1

\* C5 (as claimed): expand() on a node that expand() has already run on is
\* rejected with a fatal error and leaves the node's children list as it was.
C5_SingleExpansion ==
    [][(ExpandCalled /\ arg' \in expanded) =>
          /\ err' = "AssertionError"
          /\ nodes'[arg'].children = nodes[arg'].children]_vars

\* C5 (amended): expand() on a node that has children is rejected with a
\* fatal error and changes nothing; on a node without children it is accepted,
\* also when expand() has run on the node before (a node with no legal action).
C5_SingleExpansionAmended ==
    [][ExpandCalled =>
          IF Len(nodes[arg'].children) # 0
          THEN /\ err' = "AssertionError"
               /\ nodes' = nodes /\ edges' = edges
          ELSE /\ err' = "none"
               /\ Len(nodes'[arg'].children)
                    = Len(get_available_child_nodes(nodes[arg'].st))]_vars

\* a rejected second expand() on a node that was expanded before
C5_Witness ==
    /\ lastop = "expand" /\ err = "AssertionError"
    /\ arg \in expanded
    /\ Len(nodes[arg].children) = 2

\* ------------------------------------------------------------------ C6
\* C6: turn(node) with a node that is not equal to the root fails with a fatal
\* error and leaves the root, every children list and every edge as they were.
C6_RootMismatch ==
    [][(TurnCalled /\ nodes[arg'].st # nodes[root].st) =>
          /\ err' = "AssertionError"
          /\ root' = root /\ nodes' = nodes /\ edges' = edges]_vars

\* a rejected turn() on a child of the root that has children, after training
C6_Witness ==
    /\ lastop = "turn" /\ err = "AssertionError"
    /\ arg # root
    /\ Len(nodes[arg].children) > 0
    /\ \E e \in EdgeIds : edges[e].visit_count > 0

\* ------------------------------------------------------------------ C7
\* C7: no step of training or commit lowers the visit_count of an edge, and no
\* step removes an edge.
C7_VisitMonotone ==
    [][/\ Len(edges') >= Len(edges)
       /\ \A e \in EdgeIds : edges'[e].visit_count >= edges[e].visit_count]_vars

\* training went on after a commit was installed, an edge was visited twice
C7_Witness ==
    /\ pc = "idle" /\ lastop = "fit" /\ k >= 1
    /\ root # 1
    /\ \E e \in EdgeIds : edges[e].visit_count >= 2

\* ------------------------------------------------------------------ C8
\* C8 (as claimed): no step lowers the accumulated value of an edge.
C8_ValueMonotone ==
    [][\A e \in EdgeIds : edges'[e].value >= edges[e].value]_vars

\* C8 (amended): the accumulated value of an edge changes only in a step that
\* starts an update, and then by the reward of that update for each visit the
\* edge gains: it rises under reward 1, stays under 0 and falls under -1.
C8_ValueFollowsReward ==
    [][\A e \in EdgeIds :
          \/ /\ edges'[e].value = edges[e].value
             /\ edges'[e].visit_count = edges[e].visit_count
          \/ \E e0 \in EdgeIds : \E r \in Rewards :
                /\ Started(e0, r)
                /\ edges'[e].visit_count = edges[e].visit_count + 1
                /\ edges'[e].value = edges[e].value + r]_vars

\* one edge holds a negative sum and another a positive one
C8_Witness ==
    /\ \E e \in EdgeIds : edges[e].value < 0
    /\ \E e \in EdgeIds : edges[e].value > 0


\* ------------------------------------------------------------------ C9
FitReturned == pc = "idle" /\ err = "none" /\ k = n_req

\* C9 (as claimed): in a process whose every play ends (each own move takes
\* from the pile), a fit(opponent, n) that has left the engine has returned
\* normally after exactly n iterations.
C9_Termination == (lastop = "fit" /\ pc = "idle") => FitReturned

\* C9 (as claimed, the progress half): every fit(opponent, n) that was
\* started returns after exactly n iterations.
C9_EveryFitReturns == (pc # "idle") ~> FitReturned

\* C9 (amended): the same, for an opponent that answers with a newly built
\* node and never with the node it was given.
C9_TerminationAmended == (pc # "idle" /\ opp \in Scripted) ~> FitReturned

\* fit(opponent, 2) returned after a roll-out that went on past the nodes
\* copied from the tree
C9_Witness ==
    /\ FitReturned /\ lastop = "fit" /\ n_req = 2
    /\ opp \in Scripted
    /\ ro.src = 0 /\ ~first_turn

\* ------------------------------------------------------------------ C10
\* selection can descend from cur into its i-th child
CanDescend(i) == ENABLED (FitSelect /\ cur' = edges[nodes[cur].children[i]].child)

\* the differences between the largest score of the child edges of node n
\* and each of them, as np.float64
ScoreGaps(n) ==
    CHOOSE res \in {Gaps[v, 1, MaxOf[v, 2, v[1]]] :
                    v \in {Floats[criteria(nodes[n].children, 1), 1, <<>>]}} : TRUE

\* node n has at least one and at most Wide child edges and none of them has
\* a score 32 or more under the largest one
Near(n) ==
    /\ Len(nodes[n].children) \in 1..Wide
    /\ \A g \in {ScoreGaps(n)} : \A i \in 1..Len(g) : Smaller[g[i], FromInt[32]]

\* 2^(-26), the square root of the spacing of the doubles at 1: what the sum
\* of p may differ from 1 for np.random.choice to take p
Atol == [neg |-> FALSE, m |-> HalfTop, e |-> -78]

\* p.sum() is 1 to within Atol
SumsToOne(p) ==
    \A s \in {Sum[p]} : ~Less[Atol, Sub[s, Unit]] /\ ~Less[Atol, Sub[Unit, s]]

\* the array of np.float64 that softmax returned as w, taken from w where w
\* gives its entries themselves, else computed from the scores of the child
\* edges of node n
Probabilities(n, w) ==
    IF \A i \in 1..Len(w) : w[i].lo = w[i].hi THEN {w}
    ELSE Slow[criteria(nodes[n].children, 1)]

\* the distribution over the child edges of node n sums to 1 and gives each
\* child edge a positive probability, and some draw of np.random.choice
\* falls on each child edge
Valid(n) ==
    \A w \in weights(n) :
        /\ \A i \in 1..Len(w) : w[i].lo # Zero
        /\ \A v \in Probabilities(n, w) :
               \A p \in {[i \in 1..Len(v) |-> v[i].lo]} :
                   /\ SumsToOne(p)
                   /\ \A cdf \in {Cdf[p]} :
                          \A i \in 1..Len(p) : p[i] # Zero /\ Hit[cdf, i]

ParentVisits(n) ==
    IF nodes[n].parent_edge = 0 THEN 0 ELSE edges[nodes[n].parent_edge].visit_count

\* C11 (as claimed): no step changes the statistics of an edge that is not
\* below the current root, and the child edges of the root are scored with
\* parent_visits = 0.
C11_StopsAtRoot ==
    [][/\ \A e \in EdgeIds :
              e \notin EdgesUnder(root) =>
                  /\ edges'[e].visit_count = edges[e].visit_count
                  /\ edges'[e].value = edges[e].value
       /\ Len(nodes[root].children) > 0 => ParentVisits(root) = 0]_vars

\* ------------------------------------------------------------------ C12
\* this step is the iteration of a selection that stopped at a finished node
FinishedStep ==
    pc = "select" /\ is_terminal(cur) /\ is_finish(cur) /\ total' = total + 1

\* an update with reward r started on edge e0 is all that happens to the
\* edges: the edges on the upward walk from e0 gain 1 visit and r, the others
\* keep their statistics, and no other update is recorded
OnlyUpdate(e0, r) ==
    /\ calls' = [calls EXCEPT ![e0][r] = @ + 1]
    /\ Len(edges') = Len(edges)
    /\ \A e \in EdgeIds :
          IF e \in Walk(e0)
          THEN /\ edges'[e].visit_count = edges[e].visit_count + 1
               /\ edges'[e].value = edges[e].value + r
          ELSE edges'[e] = edges[e]

\* C12: an iteration whose selection stops at a finished node expands
\* nothing, asks the opponent nothing and leaves every children list as it
\* was; it starts exactly one update, on the node's incoming edge, with the
\* reward asked for the node's own turn-owner; without an incoming edge it
\* changes no node and no edge.
C12_FinishedSelected ==
    [][FinishedStep =>
          /\ nodes' = nodes /\ expanded' = expanded
          /\ log = <<>> /\ log' = <<>>
          /\ LET pe == nodes[cur].parent_edge
             IN  IF pe # 0
                 THEN OnlyUpdate(pe, get_reward(nodes[cur].st, nodes[cur].st.turn))
                 ELSE edges' = edges /\ calls' = calls]_vars

\* an iteration stopped at a finished node and lowered, by the loss of the
\* node's turn-owner, a value that a roll-out had raised
C12_Witness ==
    /\ pc = "idle" /\ lastop = "fit" /\ err = "none"
    /\ \E n \in NodeIds :
          /\ cur = n /\ is_finish(n) /\ nodes[n].parent_edge # 0
          /\ nodes[n].st.pile = 0
          /\ calls[nodes[n].parent_edge][-1] >= 1
          /\ calls[nodes[n].parent_edge][1] >= 1

\* ------------------------------------------------------------------ C13
\* this step is the expansion step of an iteration
ExpandStep == pc = "select" /\ pc' = "rollout_pick"

\* the opponent calls the history of the next state holds for node c
AskedOn(c) == {j \in 1..Len(log') : log'[j].ev = "ask" /\ log'[j].on = c}

\* C13: right after the expansion step the expanded node has one child edge
\* per legal action, to a new node for the state of that action; a child that
\* is not finished has exactly one outgoing edge, with prior 1 and no visits
\* and value, to the node the opponent returned for it (a new node for a
\* scripted opponent, the child itself for the pass-through one), the
\* opponent having been called exactly once on it; a finished child has no
\* outgoing edge and caused no call; the opponent was called on nothing else.
C13_Folding ==
    [][ExpandStep =>
          LET av == get_available_child_nodes(nodes[cur].st)
              kids == nodes'[cur].children
          IN  /\ Len(kids) = Len(av)
              /\ \A j \in 1..Len(log') :
                    log'[j].ev = "ask" /\ \E i \in 1..Len(kids) :
                                            log'[j].on = edges'[kids[i]].child
              /\ \A i \in 1..Len(kids) :
                    LET c == edges'[kids[i]].child
                        out == nodes'[c].children
                    IN  /\ c > Len(nodes)
                        /\ nodes'[c].st = av[i][1]
                        /\ edges'[kids[i]].prior = av[i][2]
                        /\ IF StFinish(nodes'[c].st)
                           THEN out = <<>> /\ AskedOn(c) = {}
                           ELSE /\ Len(out) = 1
                                /\ edges'[out[1]].prior = 1
                                /\ edges'[out[1]].visit_count = 0
                                /\ edges'[out[1]].value = 0
                                /\ edges'[out[1]].parent = c
                                /\ Cardinality(AskedOn(c)) = 1
                                /\ LET g == edges'[out[1]].child
                                   IN  IF opp \in Scripted
                                       THEN /\ g > Len(nodes) /\ g # c
                                            /\ nodes'[g].st = OpponentReply(nodes'[c].st)
                                            /\ \A i2 \in 1..Len(kids) :
                                                  i2 # i =>
                                                    \A o \in 1..Len(nodes'[edges'[kids[i2]].child].children) :
                                                      edges'[nodes'[edges'[kids[i2]].child].children[o]].child # g
                                       ELSE g = c]_vars

\* right after an expansion: one child is finished, the other is not and
\* holds the reply of a scripted opponent
C13_Witness ==
    /\ pc = "rollout_pick"
    /\ opp \in Scripted
    /\ Len(nodes[cur].children) = 2
    /\ \E i, j \in 1..2 :
          /\ is_finish(edges[nodes[cur].children[i]].child)
          /\ ~is_finish(edges[nodes[cur].children[j]].child)
          /\ Len(nodes[edges[nodes[cur].children[j]].child].children) = 1
    /\ Len(log) = 1

\* ------------------------------------------------------------------ C14
\* this step belongs to the roll-out of an iteration that expanded a node
RollOutStep == pc \in {"rollout_pick", "rollout"}

\* C14: no step of the roll-out changes a persisted node; the edges change
\* only in the step that ends the iteration, by one update started on the
\* selected-action edge with the reward of the finished roll-out state asked
\* for the turn-owner of the node selected for expansion; every other step of
\* the roll-out leaves all edges as they were.
C14_RollOutIsolation ==
    [][RollOutStep =>
          /\ nodes' = nodes
          /\ IF total' = total + 1
             THEN /\ pc = "rollout" /\ StFinish(ro.st)
                  /\ sel_action \in Out(sel_node)
                  /\ OnlyUpdate(sel_action,
                                get_reward(ro.st, nodes[sel_node].st.turn))
             ELSE edges' = edges /\ calls' = calls]_vars

\* an iteration that expanded a node ended with the update of its roll-out,
\* which had played an own ply and an opponent ply beyond the persisted nodes
C14_Witness ==
    /\ pc = "idle" /\ lastop = "fit" /\ err = "none" /\ k >= 1
    /\ sel_action # 0 /\ edges[sel_action].visit_count >= 1
    /\ ro.src = 0 /\ StFinish(ro.st) /\ opponent_turn
    /\ nodes[edges[sel_action].child].st.pile - ro.st.pile >= 3

\* ------------------------------------------------------------------ C15
\* this step plays a ply of the roll-out loop
PlyStep == pc = "rollout" /\ Len(log') = Len(log) + 1

\* the plies the history holds
Plies(l) == SelectSeq(l, LAMBDA x : x.ev # "ask")

\* the ply of this step is the one the order asks for and does what its kind
\* asks for: the first ply is the first opponent ply, which descends into the
\* synthetic child without an opponent call; after an opponent ply comes an
\* own ply, which expands the copy and descends into one of the new children;
\* after an own ply comes an opponent ply, which puts the opponent's reply in
\* the place of the copy; no ply is played from a finished state
PlyInOrder ==
    LET done == Plies(log)
        e == log'[Len(log')]
        av == get_available_child_nodes(ro.st)
    IN  /\ ~StFinish(ro.st) /\ e.st = ro.st
        /\ e.ev = IF done = <<>> THEN "first"
                  ELSE IF done[Len(done)].ev = "own" THEN "opp" ELSE "own"
        /\ e.ev = "first" =>
              /\ err' = "none"
              /\ ro.src # 0 /\ Len(nodes[ro.src].children) = 1
              /\ ro' = CopyOf(edges[nodes[ro.src].children[1]].child)
        /\ e.ev = "opp" =>
              /\ err' = "none"
              /\ ro'.st = IF opp \in Scripted THEN OpponentReply(ro.st) ELSE ro.st
        /\ e.ev = "own" =>
              /\ err' = "none"
              /\ \E i \in 1..Len(av) : ro' = [st |-> av[i][1], src |-> 0, nkids |-> 0]

\* a step of the roll-out loop plays a ply in order, and leaves the loop only
\* from a finished copy
LoopInOrder ==
    /\ PlyStep => PlyInOrder
    /\ (pc = "rollout" /\ pc' # "rollout") => StFinish(ro.st)

\* C15 (as claimed): every ply of the roll-out loop is in order, and the loop
\* is left only from a finished copy.
C15_PlyOrder == [][LoopInOrder]_vars

\* C15 (amended): the same, for an opponent that answers with a newly built
\* node without children.
C15_PlyOrderAmended ==
    [][(opp \in Scripted) => LoopInOrder]_vars

\* a roll-out against a scripted opponent that has played the first opponent
\* ply, an own ply and a later opponent ply
C15_Witness ==
    /\ pc = "rollout" /\ opp \in Scripted
    /\ Len(Plies(log)) = 3
    /\ Plies(log)[2].ev = "own" /\ Plies(log)[3].ev = "opp"

\* ------------------------------------------------------------------ C16
\* C16: a turn() that returns yields a child of the root, empties the
\* children list of that child and changes nothing else: the root field, the
\* children list and parent edge of every other node, the parent edge of the
\* child, and every edge are as before.
C16_CommitEffect ==
    [][(TurnCalled /\ err' = "none") =>
          /\ root' = root
          /\ edges' = edges
          /\ \E e \in Out(root) : ret' = edges[e].child
          /\ Len(nodes') = Len(nodes)
          /\ \A n \in NodeIds :
                /\ nodes'[n].st = nodes[n].st
                /\ nodes'[n].parent_edge = nodes[n].parent_edge
                /\ nodes'[n].children = IF n = ret' THEN <<>> ELSE nodes[n].children]_vars

\* a turn() returned a child whose subtree it cut off: an edge that starts at
\* the child is still in the heap, the root keeps both its child edges
C16_Witness ==
    /\ CommitReturned /\ ret # 0
    /\ nodes[ret].children = <<>>
    /\ \E e \in EdgeIds : edges[e].parent = ret /\ edges[e].child # ret
    /\ Len(nodes[root].children) = 2

\* ------------------------------------------------------------------ C17
\* the nodes below node n: those reached from n over one edge or more
Descendants(n) == UNION {NodesUnder(edges[e].child) : e \in Out(n)}

\* the structure under the root is a tree: a node is the child of at most one
\* edge, no node is below itself, and an edge is in the children list of its
\* parent, once, and of no other node
TreeShape ==
    LET NS == NodesUnder(root)
        ES == EdgesUnder(root)
    IN  /\ \A n \in NS : Cardinality({e \in ES : edges[e].child = n}) <= 1
        /\ \A n \in NS : n \notin Descendants(n)
        /\ \A e \in ES :
              /\ \A n \in NS : e \in Out(n) <=> n = edges[e].parent
              /\ Cardinality({i \in 1..Len(nodes[edges[e].parent].children) :
                                 nodes[edges[e].parent].children[i] = e}) = 1

\* C17 (as claimed): in every state the structure under the root is a tree,
\* whatever the opponent.
C17_TreeShape == TreeShape

\* C17 (amended): in every state the structure under the root is a tree when
\* the opponent answers with a newly built node.
C17_TreeShapeAmended == opp \in Scripted => TreeShape

\* a tree of four edges or more under a root that a commit has installed,
\* built against a scripted opponent
C17_Witness ==
    /\ opp \in Scripted /\ pc = "idle"
    /\ root # 1
    /\ Cardinality(EdgesUnder(root)) >= 4

\* ------------------------------------------------------------------ C18
\* the visits of the child edges of the first root, summed
RootVisits == SumOver(Out(1), [e \in EdgeIds |-> edges[e].visit_count])

\* C18 (as claimed): from a fresh root that is not finished, after k completed
\* iterations and no commit, the visit_counts of the root's child edges sum
\* to k.
C18_OneSamplePerIteration ==
    (pc = "idle" /\ ncall = 0 /\ ~is_finish(1)) => RootVisits = total

\* ------------------------------------------------------------------ C19
\* fit has not left with the assertion of expand(), the persisted node about
\* to be expanded has no children, and neither has the roll-out copy an own
\* ply is about to expand
ExpandsChildless ==
    /\ lastop = "fit" => err # "AssertionError"
    /\ (pc = "select" /\ is_terminal(cur) /\ ~is_finish(cur)) =>
          NoChildren(nodes, cur)
    /\ (pc = "rollout" /\ ~opponent_turn /\ ~StFinish(ro.st)) => ro.nkids = 0

\* C19 (as claimed): with an enumerator and an opponent that return nodes
\* without children (each opponent of the model does: the node the
\* pass-through opponent returns has no children when it returns it), the
\* engine never calls expand() on a node that has children.
C19_NoDoubleExpansion == ExpandsChildless

\* C19 (amended): the same for an opponent that returns a newly built node
\* without children, never the node it was given.
C19_NoDoubleExpansionAmended == opp \in Scripted => ExpandsChildless

\* under a root that a commit has installed the engine has expanded the root
\* again, and the roll-out against a scripted opponent has played an own ply
C19_Witness ==
    /\ opp \in Scripted /\ root # 1 /\ root \in expanded
    /\ pc = "rollout" /\ err = "none"
    /\ \E j \in 1..Len(log) : log[j].ev = "own"

\* ------------------------------------------------------------------ C20
\* C20: turn(node) with a node equal to the root, when the root has no
\* children, returns no node: it fails with an error and leaves the root
\* field, every node and every edge as they were.
C20_CommitChildlessRoot ==
    [][(TurnCalled /\ nodes[arg'].st = nodes[root].st
                   /\ Len(nodes[root].children) = 0) =>
          /\ err' # "none" /\ ret' = 0
          /\ root' = root /\ nodes' = nodes /\ edges' = edges]_vars

\* turn() failed on a root that a previous commit had installed, in a heap
\* that holds visited edges
C20_Witness ==
    /\ lastop = "turn" /\ err = "ValueError"
    /\ root # 1 /\ arg = root
    /\ \E e \in EdgeIds : edges[e].visit_count >= 1

====
